---------------------------- MODULE Spec2Model ----------------------------
(***************************************************************************)
(* A model of fitlins/interfaces/nistats.py: the contrast normaliser       *)
(* prepare_contrasts, the entity matcher _match, and the two nipype        *)
(* interfaces FirstLevelModel and SecondLevelModel.                        *)
(*                                                                         *)
(* Python values are modelled as follows.  A dict is a function whose      *)
(* domain is its set of keys, a list is a sequence, None is the value      *)
(* None below.  An input trait of a nipype interface is either Undefined   *)
(* or Defined(v), and isdefined tells the two apart.  The external engine  *)
(* (nistats, nibabel, pandas) is modelled by what the interface hands to   *)
(* it and by whether the call returns or raises.                           *)
(***************************************************************************)
EXTENDS Integers, Sequences, FiniteSets, TLC

VARIABLES
    \* ---- harness of prepare_contrasts
    n_pc, n_contrasts, n_columns, n_ret,
    \* ---- harness of _match
    m_pc, m_query, m_metadata, m_ret,
    \* ---- FirstLevelModel: inputs and environment
    session_info, hdf, mask_file, fl_contrast_info,
    \* ---- FirstLevelModel: position, locals, effects
    fl_pc, fl_exc, fl_drift_model, fl_mat, fl_contrasts, fl_i,
    fl_maps, fl_meta, fl_results, fl_disk, fl_calls,
    \* ---- SecondLevelModel: inputs
    stat_files, stat_metadata, sl_contrast_info, contrast_indices,
    \* ---- SecondLevelModel: position and effects
    sl_pc, sl_exc, sl_files, sl_fits, sl_results, sl_disk

norm_vars  == <<n_pc, n_contrasts, n_columns, n_ret>>
match_vars == <<m_pc, m_query, m_metadata, m_ret>>
fl_inputs  == <<session_info, hdf, mask_file, fl_contrast_info>>
fl_state   == <<fl_pc, fl_exc, fl_drift_model, fl_mat, fl_contrasts, fl_i,
               fl_maps, fl_meta, fl_results, fl_disk, fl_calls>>
sl_inputs  == <<stat_files, stat_metadata, sl_contrast_info, contrast_indices>>
sl_state   == <<sl_pc, sl_exc, sl_files, sl_fits, sl_results, sl_disk>>
vars == <<norm_vars, match_vars, fl_inputs, fl_state, sl_inputs, sl_state>>

----------------------------------------------------------------------------
(* Python and nipype values *)

None == "<None>"
Undefined == [set |-> FALSE]
Defined(v) == [set |-> TRUE, value |-> v]
NaN == "<NaN>"

\* The empty dict.
EmptyDict == [k \in {} |-> None]

\* nipype.interfaces.base.isdefined
isdefined(x) == x.set

\* All dicts with keys among K and values among V.
Dicts(K, V) == UNION {[S -> V] : S \in SUBSET K}

\* All lists over S of length at most n.
SeqsUpTo(S, n) == UNION {[1..k -> S] : k \in 0..n}

\* An exception propagating out of a call: its type and the line raising it.
Exc(type, line) == [type |-> type, line |-> line]
NoExc == Exc("none", 0)

----------------------------------------------------------------------------
(* prepare_contrasts, lines 22-36 *)

\* A faulty variant of FillRow: regressors the row omits are skipped, not zeroed.
FillRowSkipMissing(row, all_regressors) ==
    LET present == SelectSeq(all_regressors, LAMBDA col : col \in DOMAIN row)
    IN  [k \in 1..Len(present) |-> row[present[k]]]

\* The inner comprehension of line 31: one dense row, one entry per regressor.
FillRow(row, all_regressors) ==
    [k \in 1..Len(all_regressors) |->
        IF all_regressors[k] \in DOMAIN row THEN row[all_regressors[k]] ELSE 0]

\* Lines 29-33: a copy of the contrast whose weights are the filled rows.
FillContrast(contrast, all_regressors) ==
    [contrast EXCEPT !.weights =
        [j \in 1..Len(contrast.weights) |->
            FillRow(contrast.weights[j], all_regressors)]]

\* The loop of lines 26-34: out_contrasts grows by one entry per contrast.
RECURSIVE FillLoop(_, _, _)
FillLoop(contrasts, all_regressors, out_contrasts) ==
    IF contrasts = <<>> THEN out_contrasts
    ELSE FillLoop(Tail(contrasts), all_regressors,
                  Append(out_contrasts, FillContrast(Head(contrasts), all_regressors)))

prepare_contrasts(contrasts, all_regressors) ==
    FillLoop(IF isdefined(contrasts) THEN contrasts.value ELSE <<>>, all_regressors, <<>>)

----------------------------------------------------------------------------
(* Bounds and input universes of the prepare_contrasts harness *)

MaxContrasts == 2
MaxRows == 2
MaxCols == 2

NormRegressors == {"a", "b"}
NormRows == {[a |-> 2], [a |-> -1, b |-> 3]}
NormContrastSet ==
    {[name |-> "c", type |-> "t", weights |-> w] : w \in SeqsUpTo(NormRows, MaxRows)}

NormIdle ==
    /\ n_pc = "idle" /\ n_contrasts = Undefined /\ n_columns = <<>> /\ n_ret = <<>>

NormInit ==
    /\ n_pc = "call"
    /\ \/ n_contrasts = Undefined
       \/ \E cs \in SeqsUpTo(NormContrastSet, MaxContrasts) : n_contrasts = Defined(cs)
    /\ n_columns \in SeqsUpTo(NormRegressors, MaxCols)
    /\ n_ret = <<>>

NormCall ==
    /\ n_pc = "call"
    /\ n_ret' = prepare_contrasts(n_contrasts, n_columns)
    /\ n_pc' = "returned"
    /\ UNCHANGED <<n_contrasts, n_columns>>
    /\ UNCHANGED <<match_vars, fl_inputs, fl_state, sl_inputs, sl_state>>

----------------------------------------------------------------------------
(* _flatten and _match, lines 130-138 *)

\* Line 131: the inner lists concatenated in their given order.
RECURSIVE _flatten(_)
_flatten(x) == IF x = <<>> THEN <<>> ELSE Head(x) \o _flatten(Tail(x))

\* dict.get(key): the value, or None when the key is absent.
Get(d, key) == IF key \in DOMAIN d THEN d[key] ELSE None

\* Lines 135-138: False at the first item whose lookup differs, else True.
_match(query, metadata) ==
    \A key \in DOMAIN query : ~(Get(metadata, key) # query[key])

MatchKeys == {"id", "run"}
MatchVals == {"1", "2", None}

MatchIdle ==
    /\ m_pc = "idle" /\ m_query = EmptyDict /\ m_metadata = EmptyDict /\ m_ret = FALSE

MatchInit ==
    /\ m_pc = "call"
    /\ m_query \in Dicts(MatchKeys, MatchVals)
    /\ m_metadata \in Dicts(MatchKeys, MatchVals)
    /\ m_ret = FALSE

MatchCall ==
    /\ m_pc = "call"
    /\ m_ret' = _match(m_query, m_metadata)
    /\ m_pc' = "returned"
    /\ UNCHANGED <<m_query, m_metadata>>
    /\ UNCHANGED <<norm_vars, fl_inputs, fl_state, sl_inputs, sl_state>>

----------------------------------------------------------------------------
(* FirstLevelModel._run_interface, lines 56-114 *)

Cwd == "<cwd>"

\* d[k] = v on a dict.
Put(d, k, v) == [x \in DOMAIN d \cup {k} |-> IF x = k THEN v ELSE d[x]]

\* The elements of a list.
Elems(s) == {s[k] : k \in DOMAIN s}

\* Lines 62-68: the sparse table with condition/amplitude renamed and the rows
\* whose modulation is NaN dropped, or None when no table is named.
ReadSparse(info, store) ==
    IF info.sparse \notin {None, "None"}
    THEN SelectSeq([k \in DOMAIN store.sparse |->
                       [trial_type |-> store.sparse[k].condition,
                        modulation |-> store.sparse[k].amplitude]],
                   LAMBDA ev : ev.modulation # NaN)
    ELSE None

\* Lines 70-72, 75-76: the dense table, by its column names, or None.
ReadDense(info, store) ==
    IF info.dense \notin {None, "None"} THEN store.dense ELSE None

\* A faulty variant of ResolveDrift: only the first dense column is looked at.
DriftFromFirstColumn(info, store) ==
    IF info.dense \notin {None, "None"}
    THEN IF store.dense # <<>> /\ store.dense[1] = "cosine_00" THEN None ELSE "cosine"
    ELSE "cosine"

\* Lines 70-77: no drift model when the dense table brings cosine_00, else cosine.
ResolveDrift(info, store) ==
    IF info.dense \notin {None, "None"}
    THEN IF "cosine_00" \in Elems(store.dense) THEN None ELSE "cosine"
    ELSE "cosine"

\* The engine's design matrix, by its column names: one column per trial type,
\* the added regressors, the drift basis when asked for, and the constant.
RECURSIVE Distinct(_)
Distinct(s) ==
    IF s = <<>> THEN <<>>
    ELSE LET d == Distinct(SubSeq(s, 1, Len(s) - 1))
         IN  IF s[Len(s)] \in Elems(d) THEN d ELSE Append(d, s[Len(s)])

DesignColumns(events, add_reg_names, drift_model) ==
    (IF events = None THEN <<>>
     ELSE Distinct([k \in DOMAIN events |-> events[k].trial_type]))
    \o (IF add_reg_names = None THEN <<>> ELSE add_reg_names)
    \o (IF drift_model = "cosine" THEN <<"drift_1">> ELSE <<>>)
    \o <<"constant">>

\* The call of lines 79-85.
DesignCall(info, store, drift_model) ==
    [op |-> "make_first_level_design_matrix",
     events |-> ReadSparse(info, store),
     add_regs |-> ReadDense(info, store),
     add_reg_names |-> ReadDense(info, store),
     drift_model |-> drift_model]

\* A faulty variant of ContrastRegressors: the columns of the dense input table.
RegressorsOfInputTable == IF session_info.dense \notin {None, "None"} THEN hdf.dense ELSE <<>>

\* Line 99: the regressors the contrasts are normalised against.
ContrastRegressors == fl_mat

\* Lines 103-104: the file an effect map is written to.
EffectPath(name) == <<Cwd, name, ".nii.gz">>
DesignPath == <<Cwd, "design.tsv">>

\* A faulty variant of StepAfter: the model is fitted before design.tsv is written.
StepAfterFitFirst(pc) ==
    CASE pc = "read_inputs"    -> "make_design"
      [] pc = "make_design"    -> "fit"
      [] pc = "fit"            -> "persist_design"
      [] pc = "persist_design" -> "prepare"
      [] pc = "prepare"        -> "contrasts"
      [] pc = "contrasts"      -> "returned"

\* The statement order of lines 57-114: the step that follows each step.
StepAfter(pc) ==
    CASE pc = "read_inputs"    -> "make_design"
      [] pc = "make_design"    -> "persist_design"
      [] pc = "persist_design" -> "fit"
      [] pc = "fit"            -> "prepare"
      [] pc = "prepare"        -> "contrasts"
      [] pc = "contrasts"      -> "returned"

\* The lines at which an external call of each step can raise.
RaisingLines(pc) ==
    CASE pc = "read_inputs"    -> {59, 63, 71}
      [] pc = "make_design"    -> {79}
      [] pc = "persist_design" -> {87}
      [] pc = "fit"            -> {95}
      [] pc = "contrasts"      -> {100, 105}
      [] OTHER                 -> {}

FLMaxContrasts == 2

SparseTables ==
    { <<>>,
      <<[condition |-> "a", amplitude |-> "1.0"]>>,
      <<[condition |-> "a", amplitude |-> NaN], [condition |-> "b", amplitude |-> "1.0"]>> }
DenseTables ==
    { <<>>, <<"cosine_00">>, <<"rot_x">>, <<"rot_x", "cosine_00">>, <<"cosine_00", "rot_x">> }
FLContrastSet ==
    { [name |-> "c1", type |-> "t", weights |-> <<[a |-> 1]>>],
      [name |-> "c2", type |-> "t", weights |-> <<[b |-> 1, rot_x |-> -1]>>],
      [name |-> "c3", type |-> "F", weights |-> <<[constant |-> 2], [zz |-> 1, cosine_00 |-> 3]>>] }

FLIdle ==
    /\ session_info = [sparse |-> None, dense |-> None, repetition_time |-> 2]
    /\ hdf = [sparse |-> <<>>, dense |-> <<>>]
    /\ mask_file = Undefined
    /\ fl_contrast_info = Undefined
    /\ fl_pc = "idle" /\ fl_exc = NoExc /\ fl_drift_model = None /\ fl_mat = <<>>
    /\ fl_contrasts = <<>> /\ fl_i = 0 /\ fl_maps = <<>> /\ fl_meta = <<>>
    /\ fl_results = EmptyDict /\ fl_disk = EmptyDict /\ fl_calls = <<>>

FLInit ==
    /\ \E sp \in {None, "None", "model.h5"}, de \in {None, "None", "model.h5"} :
          /\ session_info = [sparse |-> sp, dense |-> de, repetition_time |-> 2]
          /\ \E st \in SparseTables, dt \in DenseTables :
                /\ (sp \in {None, "None"} => st = <<>>)
                /\ (de \in {None, "None"} => dt = <<>>)
                /\ hdf = [sparse |-> st, dense |-> dt]
    /\ mask_file \in {Undefined, Defined("mask.nii.gz")}
    /\ \/ fl_contrast_info = Undefined
       \/ \E cs \in SeqsUpTo(FLContrastSet, FLMaxContrasts) : fl_contrast_info = Defined(cs)
    /\ fl_pc = "read_inputs" /\ fl_exc = NoExc /\ fl_drift_model = None /\ fl_mat = <<>>
    /\ fl_contrasts = <<>> /\ fl_i = 0 /\ fl_maps = <<>> /\ fl_meta = <<>>
    /\ fl_results = EmptyDict /\ fl_disk = EmptyDict /\ fl_calls = <<>>

FLOthers == <<norm_vars, match_vars, fl_inputs, sl_inputs, sl_state>>

\* Lines 57-77: load the image, read the tables, choose the drift model.
FL_ReadInputs ==
    /\ fl_pc = "read_inputs"
    /\ fl_drift_model' = ResolveDrift(session_info, hdf)
    /\ fl_pc' = StepAfter(fl_pc)
    /\ UNCHANGED <<fl_exc, fl_mat, fl_contrasts, fl_i, fl_maps, fl_meta,
                   fl_results, fl_disk, fl_calls>>
    /\ UNCHANGED FLOthers

\* Lines 79-85: the engine builds the design matrix.
FL_MakeDesignMatrix ==
    /\ fl_pc = "make_design"
    /\ LET call == DesignCall(session_info, hdf, fl_drift_model)
       IN  /\ fl_calls' = Append(fl_calls, call)
           /\ fl_mat' = DesignColumns(call.events, call.add_reg_names, call.drift_model)
    /\ fl_pc' = StepAfter(fl_pc)
    /\ UNCHANGED <<fl_exc, fl_drift_model, fl_contrasts, fl_i, fl_maps, fl_meta,
                   fl_results, fl_disk>>
    /\ UNCHANGED FLOthers

\* Lines 87-89: design.tsv is written and named in the results.
FL_PersistDesign ==
    /\ fl_pc = "persist_design"
    /\ fl_calls' = Append(fl_calls, [op |-> "to_csv", path |-> DesignPath])
    /\ fl_disk' = Put(fl_disk, DesignPath, [columns |-> fl_mat])
    /\ fl_results' = Put(fl_results, "design_matrix", DesignPath)
    /\ fl_pc' = StepAfter(fl_pc)
    /\ UNCHANGED <<fl_exc, fl_drift_model, fl_mat, fl_contrasts, fl_i, fl_maps, fl_meta>>
    /\ UNCHANGED FLOthers

\* Lines 91-95: the model is created with the mask, or None, and fitted.
FL_Fit ==
    /\ fl_pc = "fit"
    /\ fl_calls' = Append(fl_calls,
          [op |-> "fit",
           mask |-> IF isdefined(mask_file) THEN mask_file.value ELSE None,
           design_matrices |-> fl_mat])
    /\ fl_pc' = StepAfter(fl_pc)
    /\ UNCHANGED <<fl_exc, fl_drift_model, fl_mat, fl_contrasts, fl_i, fl_maps, fl_meta,
                   fl_results, fl_disk>>
    /\ UNCHANGED FLOthers

\* Lines 97-99: the empty output lists and the normalised contrasts.
FL_PrepareContrasts ==
    /\ fl_pc = "prepare"
    /\ fl_contrasts' = prepare_contrasts(fl_contrast_info, ContrastRegressors)
    /\ fl_maps' = <<>>
    /\ fl_meta' = <<>>
    /\ fl_i' = 1
    /\ fl_pc' = StepAfter(fl_pc)
    /\ UNCHANGED <<fl_exc, fl_drift_model, fl_mat, fl_results, fl_disk, fl_calls>>
    /\ UNCHANGED FLOthers

\* The call of lines 100-102 for one normalised contrast.
ComputeCall(contrast) ==
    [op |-> "compute_contrast", weights |-> contrast.weights,
     type |-> contrast.type, output_type |-> "effect_size"]

\* Lines 100-109: one iteration of the loop over the normalised contrasts.
FL_ComputeContrast ==
    /\ fl_pc = "contrasts"
    /\ fl_i <= Len(fl_contrasts)
    /\ LET contrast == fl_contrasts[fl_i]
           es_fname == EffectPath(contrast.name)
       IN  /\ fl_calls' = fl_calls \o <<ComputeCall(contrast),
                                        [op |-> "to_filename", path |-> es_fname]>>
           /\ fl_disk' = Put(fl_disk, es_fname,
                             [weights |-> contrast.weights, type |-> contrast.type])
           /\ fl_maps' = Append(fl_maps, es_fname)
           /\ fl_meta' = Append(fl_meta, [contrast |-> contrast.weights, type |-> "effect"])
    /\ fl_i' = fl_i + 1
    /\ UNCHANGED <<fl_pc, fl_exc, fl_drift_model, fl_mat, fl_contrasts, fl_results>>
    /\ UNCHANGED FLOthers

\* Lines 111-114: the lists are put in the results and the method returns.
FL_Return ==
    /\ fl_pc = "contrasts"
    /\ fl_i > Len(fl_contrasts)
    /\ fl_results' = Put(Put(fl_results, "contrast_maps", fl_maps),
                         "contrast_metadata", fl_meta)
    /\ fl_pc' = StepAfter(fl_pc)
    /\ UNCHANGED <<fl_exc, fl_drift_model, fl_mat, fl_contrasts, fl_i, fl_maps, fl_meta,
                   fl_disk, fl_calls>>
    /\ UNCHANGED FLOthers

\* The file a write at the given line was writing when it raised.
FileInProgress(line) ==
    IF line = 87 THEN DesignPath ELSE EffectPath(fl_contrasts[fl_i].name)

\* An external call of the current step raises: the exception leaves the method.
\* Raised by to_filename (line 105), it follows the compute_contrast call.  A
\* write that raises (lines 87, 105) may or may not leave its file, unfinished.
FL_Raise ==
    /\ fl_pc = "contrasts" => fl_i <= Len(fl_contrasts)
    /\ \E line \in RaisingLines(fl_pc), left \in BOOLEAN :
          /\ left => line \in {87, 105}
          /\ fl_exc' = Exc("Exception", line)
          /\ fl_calls' = IF line = 105
                         THEN Append(fl_calls, ComputeCall(fl_contrasts[fl_i]))
                         ELSE fl_calls
          /\ fl_disk' = IF left
                        THEN Put(fl_disk, FileInProgress(line), [partial |-> TRUE])
                        ELSE fl_disk
    /\ fl_pc' = "raised"
    /\ UNCHANGED <<fl_drift_model, fl_mat, fl_contrasts, fl_i, fl_maps, fl_meta,
                   fl_results>>
    /\ UNCHANGED FLOthers

----------------------------------------------------------------------------
(* SecondLevelModel._run_interface, lines 145-185 *)

\* A call of prepare_contrasts(contrasts, all_regressors), line 22, with the
\* positional arguments args: both parameters are required, so any other
\* number of arguments raises TypeError at the calling line.
Call_prepare_contrasts(args, line) ==
    IF Len(args) = 2
    THEN [exc |-> NoExc, value |-> prepare_contrasts(args[1], args[2])]
    ELSE [exc |-> Exc("TypeError", line), value |-> <<>>]

\* fitlins.utils.dict_intersection: the items the two dicts share.
dict_intersection(d1, d2) ==
    [k \in {x \in DOMAIN d1 : x \in DOMAIN d2 /\ d1[x] = d2[x]} |-> d1[k]]

\* functools.reduce(dict_intersection, seq) over a non-empty list.
RECURSIVE ReduceIntersection(_)
ReduceIntersection(seq) ==
    IF Len(seq) = 1 THEN seq[1]
    ELSE dict_intersection(ReduceIntersection(SubSeq(seq, 1, Len(seq) - 1)), seq[Len(seq)])

\* How the method ends: returned or raised, and what it left behind.
SLOutcome(pc, exc, files, fits, results, disk) ==
    [pc |-> pc, exc |-> exc, files |-> files, fits |-> fits,
     results |-> results, disk |-> disk]

\* The whole method.  Line 148 calls prepare_contrasts with one argument.
\* Were that call to return, line 152 indexes the list contrasts with the
\* string 'entities', which raises TypeError in the first iteration, so the
\* scan of lines 153-159 and the loop body of lines 167-180 run only for an
\* empty list of contrasts, that is, never.
SecondLevel_run(files_in, metadata_in, contrast_info, indices) ==
    LET prep == Call_prepare_contrasts(<<contrast_info>>, 148)
    IN  IF prep.exc # NoExc
        THEN SLOutcome("raised", prep.exc, <<>>, <<>>, EmptyDict, EmptyDict)
        ELSE IF prep.value # <<>>
        THEN SLOutcome("raised", Exc("TypeError", 152), <<>>, <<>>, EmptyDict, EmptyDict)
        ELSE IF indices = <<>>
        THEN SLOutcome("raised", Exc("TypeError", 161), <<>>, <<>>, EmptyDict, EmptyDict)
        ELSE SLOutcome("returned", NoExc, <<>>, <<>>,
                       [contrast_maps |-> <<>>, contrast_metadata |-> <<>>], EmptyDict)

SLMaxRuns == 2
SLMaxPerRun == 2
SLMaxFilters == 3
SLMaxContrasts == 2

\* Statistical map records: a file and its metadata.
SLRecords ==
    { [file |-> "sub1.nii.gz", metadata |-> [id |-> "1"]],
      [file |-> "sub2.nii.gz", metadata |-> [id |-> "2"]],
      [file |-> "sub1run2.nii.gz", metadata |-> [id |-> "1", run |-> "2"]] }
SLFilters == { [id |-> "1"], [id |-> "2"], [id |-> "3"] }
SLContrastSet ==
    { [name |-> "diff", type |-> "t", weights |-> <<1, 0, -1>>],
      [name |-> "null", type |-> "t", weights |-> <<0, 0, 0>>],
      [name |-> "mean", type |-> "t", weights |-> <<1, 1, 1>>] }

SLIdle ==
    /\ stat_files = <<>> /\ stat_metadata = <<>>
    /\ sl_contrast_info = Undefined /\ contrast_indices = <<>>
    /\ sl_pc = "idle" /\ sl_exc = NoExc /\ sl_files = <<>> /\ sl_fits = <<>>
    /\ sl_results = EmptyDict /\ sl_disk = EmptyDict

SLInit ==
    /\ \E nested \in SeqsUpTo(SeqsUpTo(SLRecords, SLMaxPerRun), SLMaxRuns) :
          /\ stat_files = [r \in DOMAIN nested |->
                             [k \in DOMAIN nested[r] |-> nested[r][k].file]]
          /\ stat_metadata = [r \in DOMAIN nested |->
                                [k \in DOMAIN nested[r] |-> nested[r][k].metadata]]
    /\ \/ sl_contrast_info = Undefined
       \/ \E cs \in SeqsUpTo(SLContrastSet, SLMaxContrasts) : sl_contrast_info = Defined(cs)
    /\ contrast_indices \in SeqsUpTo(SLFilters, SLMaxFilters)
    /\ sl_pc = "ready" /\ sl_exc = NoExc /\ sl_files = <<>> /\ sl_fits = <<>>
    /\ sl_results = EmptyDict /\ sl_disk = EmptyDict

SL_run_interface ==
    /\ sl_pc = "ready"
    /\ LET out == SecondLevel_run(stat_files, stat_metadata, sl_contrast_info,
                                  contrast_indices)
       IN  /\ sl_pc' = out.pc
           /\ sl_exc' = out.exc
           /\ sl_files' = out.files
           /\ sl_fits' = out.fits
           /\ sl_results' = out.results
           /\ sl_disk' = out.disk
    /\ UNCHANGED <<norm_vars, match_vars, fl_inputs, fl_state, sl_inputs>>

----------------------------------------------------------------------------
(* Specifications *)

NormNext == NormCall
InitNorm == NormInit /\ MatchIdle /\ FLIdle /\ SLIdle
SpecNorm == InitNorm /\ [][NormNext]_vars

MatchNext == MatchCall
InitMatch == NormIdle /\ MatchInit /\ FLIdle /\ SLIdle
SpecMatch == InitMatch /\ [][MatchNext]_vars

FLNext ==
    \/ FL_ReadInputs
    \/ FL_MakeDesignMatrix
    \/ FL_PersistDesign
    \/ FL_Fit
    \/ FL_PrepareContrasts
    \/ FL_ComputeContrast
    \/ FL_Return
    \/ FL_Raise
InitFL == NormIdle /\ MatchIdle /\ FLInit /\ SLIdle
SpecFL == InitFL /\ [][FLNext]_vars

SLNext == SL_run_interface
InitSL == NormIdle /\ MatchIdle /\ FLIdle /\ SLInit
SpecSL == InitSL /\ [][SLNext]_vars

Init == InitNorm \/ InitMatch \/ InitFL \/ InitSL
Next == NormNext \/ MatchNext \/ FLNext \/ SLNext
Spec == Init /\ [][Next]_vars

----------------------------------------------------------------------------
(* Properties of prepare_contrasts, under SpecNorm *)

\* dict.get(key, default), the lookup the documentation states the result by.
GetOr(d, key, default) == IF key \in DOMAIN d THEN d[key] ELSE default

\* The contrasts a trait holds: none when it is undefined.
Given(trait) == IF isdefined(trait) THEN trait.value ELSE <<>>

\* C1: prepare_contrasts returns one contrast per input contrast, in order,
\* each with one row per input row, in order; entry k of every output row is
\* row.get(columns[k], 0), so every row is as long as the column list, an
\* omitted regressor is zero, a given value is kept and a key that is no
\* column is dropped; an undefined or empty input gives the empty list.
C1_NormalizeIsReference ==
    n_pc = "returned" =>
        /\ Len(n_ret) = Len(Given(n_contrasts))
        /\ \A i \in 1..Len(Given(n_contrasts)) :
              LET in == Given(n_contrasts)[i]
                  out == n_ret[i]
              IN  /\ out.name = in.name
                  /\ out.type = in.type
                  /\ Len(out.weights) = Len(in.weights)
                  /\ \A j \in 1..Len(in.weights) :
                        /\ Len(out.weights[j]) = Len(n_columns)
                        /\ \A k \in 1..Len(n_columns) :
                              out.weights[j][k] = GetOr(in.weights[j], n_columns[k], 0)

\* C1, its case: two contrasts normalised against the single column b; the row
\* {a: 2} gives [0] (b omitted, a dropped) and the row {a: -1, b: 3} gives [3].
C1_Witness ==
    /\ n_pc = "returned"
    /\ n_columns = <<"b">>
    /\ Len(n_ret) = 2
    /\ n_ret[1].weights = << <<0>>, <<3>> >>
    /\ n_ret[2].weights = << <<3>> >>

----------------------------------------------------------------------------
(* Properties of _match, under SpecMatch *)

\* C9: _match(query, metadata) is true exactly when every key of the query is
\* a key of the metadata with an equal value; in particular a query key the
\* metadata lacks makes it false whatever the query's value, None included.
C9_MatchIffPresentAndEqual ==
    m_pc = "returned" =>
        (m_ret <=> \A key \in DOMAIN m_query :
                       key \in DOMAIN m_metadata /\ m_metadata[key] = m_query[key])

----------------------------------------------------------------------------
(* Properties of FirstLevelModel, under SpecFL *)

DenseSupplied == session_info.dense \notin {None, "None"}

\* The calls of fl_calls with the given name, in call order.
CallsOf(op) == SelectSeq(fl_calls, LAMBDA c : c.op = op)

\* C7: the drift model handed to the design-matrix builder is None exactly
\* when a dense table is supplied and has a column cosine_00, and 'cosine'
\* otherwise; it is a function of the dense table alone.
C7_DriftModel ==
    \A k \in DOMAIN fl_calls :
        fl_calls[k].op = "make_first_level_design_matrix" =>
            fl_calls[k].drift_model =
                IF DenseSupplied /\ "cosine_00" \in Elems(hdf.dense) THEN None ELSE "cosine"

\* C7, its case: no sparse table, a dense table whose second column is
\* cosine_00, and the builder called with no drift model.
C7_Witness ==
    /\ fl_calls # <<>>
    /\ fl_calls[1].op = "make_first_level_design_matrix"
    /\ fl_calls[1].drift_model = None
    /\ session_info.sparse = None
    /\ hdf.dense = <<"rot_x", "cosine_00">>

\* C8: when the method returns, contrast_maps and contrast_metadata have one
\* entry per input contrast in input order; contrast i is computed with, and
\* its metadata records, the weights of contrast i filled against the columns
\* of the design matrix that was fitted; the metadata is {contrast: weights,
\* type: 'effect'} and the map is in a file named after the contrast's name.
C8_EffectMapsPerContrast ==
    fl_pc = "returned" =>
        LET ins == Given(fl_contrast_info)
            computes == CallsOf("compute_contrast")
            fitted == CallsOf("fit")[1].design_matrices
            maps == fl_results["contrast_maps"]
            metas == fl_results["contrast_metadata"]
        IN  /\ Len(maps) = Len(ins)
            /\ Len(metas) = Len(ins)
            /\ Len(computes) = Len(ins)
            /\ \A i \in 1..Len(ins) :
                  LET dense == [j \in 1..Len(ins[i].weights) |->
                                  [k \in 1..Len(fitted) |->
                                      GetOr(ins[i].weights[j], fitted[k], 0)]]
                  IN  /\ computes[i].weights = dense
                      /\ computes[i].type = ins[i].type
                      /\ computes[i].output_type = "effect_size"
                      /\ metas[i] = [contrast |-> dense, type |-> "effect"]
                      /\ maps[i] = <<Cwd, ins[i].name, ".nii.gz">>
                      /\ maps[i] \in DOMAIN fl_disk

\* C8, its case: the contrasts c3 and c1, in that order, with a dense table
\* supplied; c3 weighs the constant column, which only the design matrix has.
C8_Witness ==
    /\ fl_pc = "returned"
    /\ DenseSupplied
    /\ Len(fl_results["contrast_maps"]) = 2
    /\ fl_results["contrast_maps"][1] = <<Cwd, "c3", ".nii.gz">>
    /\ fl_results["contrast_maps"][2] = <<Cwd, "c1", ".nii.gz">>
    /\ \E k \in DOMAIN fl_results["contrast_metadata"][1].contrast[1] :
          fl_results["contrast_metadata"][1].contrast[1][k] = 2

\* The fixed order of the external calls for n contrasts.
RECURSIVE ContrastOps(_)
ContrastOps(n) ==
    IF n = 0 THEN <<>> ELSE ContrastOps(n - 1) \o <<"compute_contrast", "to_filename">>
FixedOrder(n) ==
    <<"make_first_level_design_matrix", "to_csv", "fit">> \o ContrastOps(n)
IsPrefix(s, t) == Len(s) <= Len(t) /\ \A k \in DOMAIN s : s[k] = t[k]
StepsInOrder ==
    IsPrefix([k \in DOMAIN fl_calls |-> fl_calls[k].op],
             FixedOrder(Len(Given(fl_contrast_info))))

\* The number of external calls completed before the call at a line raises.
CallsBefore(line, i) ==
    CASE line \in {59, 63, 71, 79} -> 0
      [] line = 87  -> 1
      [] line = 95  -> 2
      [] line = 100 -> 3 + 2 * (i - 1)
      [] line = 105 -> 4 + 2 * (i - 1)

\* C10 as stated: the steps run in the fixed order, and after a failure no
\* output is in the result record and no output file is left behind (a file
\* whose own write failed, left unfinished, is not counted as an output).
C10_NoPartialOutput ==
    /\ StepsInOrder
    /\ fl_pc = "raised" =>
          /\ DOMAIN fl_results = {}
          /\ \A f \in DOMAIN fl_disk : "partial" \in DOMAIN fl_disk[f]

\* The files written in full before the call at a line raises, and the file
\* that call was writing, if any.
WrittenBefore(line, i) ==
    (IF line > 87 THEN {<<Cwd, "design.tsv">>} ELSE {})
    \cup {<<Cwd, Given(fl_contrast_info)[k].name, ".nii.gz">> : k \in 1..(i - 1)}
BeingWritten(line, i) ==
    CASE line = 87  -> {<<Cwd, "design.tsv">>}
      [] line = 105 -> {<<Cwd, Given(fl_contrast_info)[i].name, ".nii.gz">>}
      [] OTHER      -> {}

\* C10 as amended: the steps run in the fixed order; a failure ends the method
\* at once; contrast_maps and contrast_metadata enter the result record only
\* when the method returns, with every contrast done.  What a failure leaves
\* behind is the design matrix file and its result entry, once written, the
\* effect map of every contrast completed before the failure, and at most the
\* file whose write failed.
C10_OrderAndCommit ==
    /\ StepsInOrder
    /\ ("contrast_maps" \in DOMAIN fl_results \/ "contrast_metadata" \in DOMAIN fl_results)
          => /\ fl_pc = "returned"
             /\ Len(fl_results["contrast_maps"]) = Len(Given(fl_contrast_info))
             /\ Len(fl_results["contrast_metadata"]) = Len(Given(fl_contrast_info))
    /\ fl_exc # NoExc =>
          /\ fl_pc = "raised"
          /\ Len(fl_calls) = CallsBefore(fl_exc.line, fl_i)
          /\ DOMAIN fl_results = (IF fl_exc.line > 87 THEN {"design_matrix"} ELSE {})
          /\ WrittenBefore(fl_exc.line, fl_i) \subseteq DOMAIN fl_disk
          /\ DOMAIN fl_disk \subseteq
                WrittenBefore(fl_exc.line, fl_i) \cup BeingWritten(fl_exc.line, fl_i)

\* C10, its case: saving the second effect map, c2, fails; design.tsv and the
\* first effect map, c1, are on disk and the result record names the design
\* matrix only.
C10_Witness ==
    /\ fl_pc = "raised"
    /\ fl_exc.line = 105
    /\ fl_i = 2
    /\ fl_contrasts[2].name = "c2"
    /\ DOMAIN fl_results = {"design_matrix"}
    /\ DOMAIN fl_disk = {<<Cwd, "design.tsv">>, <<Cwd, "c1", ".nii.gz">>}

----------------------------------------------------------------------------
(* Properties of SecondLevelModel, under SpecSL.  The documented contract   *)
(* is stated over the inputs: the pool is the flattened stat_files paired   *)
(* with the flattened stat_metadata, the entity filters are                 *)
(* contrast_indices, the contrasts are contrast_info.                       *)

Min(a, b) == IF a <= b THEN a ELSE b

\* zip(_flatten(stat_files), _flatten(stat_metadata)), lines 153-154.
Pool ==
    LET fs == _flatten(stat_files)
        ms == _flatten(stat_metadata)
    IN  [k \in 1..Min(Len(fs), Len(ms)) |-> [file |-> fs[k], metadata |-> ms[k]]]

\* A record satisfies a filter: every filter key is present with an equal value.
Satisfies(filter, metadata) ==
    \A key \in DOMAIN filter : key \in DOMAIN metadata /\ metadata[key] = filter[key]

Matching(filter) == {k \in DOMAIN Pool : Satisfies(filter, Pool[k].metadata)}
FirstMatch(filter) ==
    Pool[CHOOSE k \in Matching(filter) : \A other \in Matching(filter) : k <= other].file
AllFiltersMatch == \A f \in DOMAIN contrast_indices : Matching(contrast_indices[f]) # {}
MatchedFiles == [f \in DOMAIN contrast_indices |-> FirstMatch(contrast_indices[f])]

SLEnded == sl_pc \in {"returned", "raised"}
SLContrasts == Given(sl_contrast_info)

\* There are contrasts; each has one weight per matched file, one nonzero.
NonZeroAt(weights) == {k \in DOMAIN weights : weights[k] # 0}
ContrastsFit ==
    /\ SLContrasts # <<>>
    /\ \A c \in DOMAIN SLContrasts :
        /\ Len(SLContrasts[c].weights) = Len(contrast_indices)
        /\ NonZeroAt(SLContrasts[c].weights) # {}

\* The entries of s at the positions in keep, in order.
RECURSIVE Pick(_, _)
Pick(s, keep) ==
    IF s = <<>> THEN <<>>
    ELSE LET front == Pick(SubSeq(s, 1, Len(s) - 1), keep)
         IN  IF Len(s) \in keep THEN Append(front, s[Len(s)]) ELSE front

\* C2: when every entity filter matches some record of the pool, the matched
\* list has one file per filter, in filter order: the file of the first
\* record of the pool that satisfies the filter.
C2_FirstMatchPerFilter ==
    (SLEnded /\ AllFiltersMatch) => sl_files = MatchedFiles

\* C3: when some entity filter matches no record, the method ends in the
\* unmatched-filter error of line 159, with no model fitted, no map written
\* and no result reported.
C3_UnmatchedFilterError ==
    (SLEnded /\ ~AllFiltersMatch) =>
        /\ sl_pc = "raised"
        /\ sl_exc = Exc("ValueError", 159)
        /\ sl_fits = <<>>
        /\ DOMAIN sl_disk = {}
        /\ DOMAIN sl_results = {}

\* C4: for each contrast the model is fitted to the matched files whose
\* weight is nonzero, in matched order, with a one-column intercept design
\* holding those nonzero weights in the same order.
C4_NonzeroSelection ==
    (SLEnded /\ AllFiltersMatch /\ ContrastsFit) =>
        sl_fits = [c \in DOMAIN SLContrasts |->
                      LET w == SLContrasts[c].weights
                      IN  [data |-> Pick(MatchedFiles, NonZeroAt(w)),
                           intercept |-> Pick(w, NonZeroAt(w))]]

\* C5: a contrast whose weights are all zero ends the method in the error of
\* fitting an empty design (lines 166-175), and nothing is reported for it.
C5_DegenerateContrastError ==
    (/\ SLEnded
     /\ AllFiltersMatch
     /\ \E c \in DOMAIN SLContrasts :
           /\ Len(SLContrasts[c].weights) = Len(contrast_indices)
           /\ NonZeroAt(SLContrasts[c].weights) = {}) =>
        /\ sl_pc = "raised"
        /\ sl_exc.line \in 166..175
        /\ DOMAIN sl_results = {}

\* The items every entity filter has, the filters being non-empty in number.
RECURSIVE CommonEntities(_)
CommonEntities(filters) ==
    IF Len(filters) = 1 THEN filters[1]
    ELSE LET rest == CommonEntities(Tail(filters))
         IN  [k \in {x \in DOMAIN filters[1] :
                        x \in DOMAIN rest /\ rest[x] = filters[1][x]} |-> rest[k]]

=============================================================================
